---- MODULE Spec2Model ----
(***************************************************************************)
(* Model of src/proxy_server.py: a FastAPI application with two routes,    *)
(* GET /health (health_check) and the catch-all route proxy_to_litellm,    *)
(* which reads the request body, validates it, awaits litellm.acompletion  *)
(* and converts the result (or the failure) into an HTTP response.         *)
(*                                                                         *)
(* The handler is an asyncio coroutine: its code runs without interleaving *)
(* between two awaits.  It awaits twice, request.body() (line 52) and      *)
(* litellm.acompletion (line 71), so each request takes three steps:       *)
(* Arrive (lines 43-52), BodyRead (lines 52-78, or to the end through the  *)
(* except clauses) and BackendCompletes (lines 71-120).  Each await can    *)
(* return or raise; an exception that is not an Exception (a cancellation) *)
(* passes the except clauses and the request ends without a response.      *)
(*                                                                         *)
(* FastAPI adds its documentation routes (line 12) before the two routes   *)
(* of the file, and answers an exception that leaves the handler.          *)
(*                                                                         *)
(* Python values that come from JSON are written as their JSON text, so    *)
(* the number 0 is "0", the empty list is "[]" and the string hi is        *)
(* "\"hi\"".  A dict read with .get is a record over Keys whose missing    *)
(* keys hold Absent.                                                       *)
(***************************************************************************)
EXTENDS Integers, Sequences, FiniteSets, TLC

VARIABLES pc, request, environ, clientOpen, requestBody, calls, backend,
          responses, phases

vars == <<pc, request, environ, clientOpen, requestBody, calls, backend,
          responses, phases>>

\* Number of requests the server handles concurrently.
NumRequests == 2

Requests == 1..NumRequests

-----------------------------------------------------------------------------
(* Strings *)

StartsWith(s, p) == Len(s) >= Len(p) /\ SubSeq(s, 1, Len(p)) = p

Contains(s, p) ==
    \E i \in 1..(Len(s) - Len(p) + 1) : SubSeq(s, i, i + Len(p) - 1) = p

\* str.replace(old, ""): every non-overlapping occurrence of old, scanning
\* from the left, is removed.
RECURSIVE Remove(_, _)
Remove(s, old) ==
    IF Len(s) < Len(old) THEN s
    ELSE IF SubSeq(s, 1, Len(old)) = old
         THEN Remove(SubSeq(s, Len(old) + 1, Len(s)), old)
         ELSE SubSeq(s, 1, 1) \o Remove(SubSeq(s, 2, Len(s)), old)

-----------------------------------------------------------------------------
(* Python values *)

Absent == "<absent>"

Keys == {"model", "messages", "temperature", "max_tokens"}

EmptyItems == [k \in Keys |-> Absent]

\* The text of s before its first character of cs (all of s when it has
\* none), and the text after that character.
Before(s, cs) ==
    LET hits == {i \in 1..Len(s) : SubSeq(s, i, i) \in cs} IN
    IF hits = {} THEN s
    ELSE SubSeq(s, 1, (CHOOSE i \in hits : \A j \in hits : i <= j) - 1)

After(s, cs) ==
    LET b == Before(s, cs) IN
    IF Len(b) = Len(s) THEN "" ELSE SubSeq(s, Len(b) + 2, Len(s))

DecimalDigits == "0123456789"

\* The value of each decimal digit.
DigitVals == [c \in {SubSeq(DecimalDigits, n, n) : n \in 1..10} |->
                 CHOOSE n \in 0..9 : SubSeq(DecimalDigits, n + 1, n + 1) = c]

IsDigit(c) == c \in DOMAIN DigitVals

DigitVal(c) == DigitVals[c]

\* The text of a JSON number starts with a digit, or a minus sign and a digit.
IsNumber(v) ==
    \/ Len(v) >= 1 /\ IsDigit(SubSeq(v, 1, 1))
    \/ Len(v) >= 2 /\ SubSeq(v, 1, 1) = "-" /\ IsDigit(SubSeq(v, 2, 2))

\* The digits of a number before its exponent, without its sign.
Mantissa(v) ==
    LET m == Before(v, {"e", "E"})
    IN  IF Len(m) > 0 /\ SubSeq(m, 1, 1) = "-" THEN SubSeq(m, 2, Len(m)) ELSE m

\* s without its leading zeros.
StripZeros(s) ==
    IF \A i \in 1..Len(s) : SubSeq(s, i, i) = "0" THEN ""
    ELSE SubSeq(s, CHOOSE i \in 1..Len(s) :
                       /\ SubSeq(s, i, i) # "0"
                       /\ \A j \in 1..(i - 1) : SubSeq(s, j, j) = "0",
                Len(s))

\* The exponent written after e or E: whether it has a minus sign, and its
\* digits without leading zeros, none when it is 0 or not written.
ExponentNegative(v) == StartsWith(After(v, {"e", "E"}), "-")

ExponentDigits(v) ==
    LET x == After(v, {"e", "E"}) IN
    StripZeros(IF Len(x) > 0 /\ SubSeq(x, 1, 1) \in {"-", "+"}
               THEN SubSeq(x, 2, Len(x)) ELSE x)

\* The significant digits d1 d2 ... of a number, none when it is zero, and
\* the magnitude m of its mantissa: the mantissa is 0.d1d2... * 10^m.
Significand(v) ==
    StripZeros(Before(Mantissa(v), {"."}) \o After(Mantissa(v), {"."}))

MantissaMagnitude(v) ==
    LET int == Before(Mantissa(v), {"."})
        all == int \o After(Mantissa(v), {"."})
    IN  Len(int) - (Len(all) - Len(StripZeros(all)))

\* The decimal digits of a natural number, none for 0.
RECURSIVE NatText(_)
NatText(n) ==
    IF n = 0 THEN ""
    ELSE NatText(n \div 10) \o SubSeq(DecimalDigits, (n % 10) + 1, (n % 10) + 1)

\* The digits of 2^-1075 = 0.247...e-323, half the smallest positive float:
\* a number up to it is read as 0.0 (round to nearest, ties to even).
HalfMinFloat ==
    "2470328229206232720882843964341106861825299013071623822127928412"
    \o "5033775363510437593264991818081799618989828234772285886546332835"
    \o "5177969898199387398005390939063150356595155702263922908583924491"
    \o "0518443593180284993653615250031937045767824921936562366986365848"
    \o "0757001585769269903706311928279558551332927834338409351978015531"
    \o "2465972635795746227664652728272200563740064854999770965994704540"
    \o "2082816622623785739345073633900796776193057750674017632467360096"
    \o "8951340535537458516661134223766678604162159680461914467291840300"
    \o "5300575308490487653917113865916462395249126236538818796362393732"
    \o "8042389101867234849766823508986338858792562830275599565752445550"
    \o "7255189313690836254779186948667994968324049705821028513185451396"
    \o "213837722826145437693412532098591327667236328125"

\* The i-th digit of the digits d, 0 after their end.
DigitAt(d, i) == IF i > Len(d) THEN 0 ELSE DigitVal(SubSeq(d, i, i))

\* Whether the digits d write a number at most that of the digits t, both
\* read as 0.d and 0.t: they are equal, or d has the smaller digit at the
\* first position where they differ.
DigitsLeq(d, t) ==
    LET n == IF Len(d) > Len(t) THEN Len(d) ELSE Len(t) IN
    \/ \A i \in 1..n : DigitAt(d, i) = DigitAt(t, i)
    \/ \E i \in 1..n : /\ DigitAt(d, i) < DigitAt(t, i)
                       /\ \A j \in 1..(i - 1) : DigitAt(d, j) = DigitAt(t, j)

\* a < b, for naturals of any size written in digits without leading zeros.
NatLess(a, b) ==
    \/ Len(a) < Len(b)
    \/ Len(a) = Len(b) /\ a # b /\ DigitsLeq(a, b)

\* The exponent of v is less than the integer t, and is t.  The exponent is
\* compared digit by digit: it can have any number of digits.
ExponentLess(v, t) ==
    LET d == ExponentDigits(v) IN
    IF ExponentNegative(v) /\ d # ""
    THEN t >= 0 \/ NatLess(NatText(0 - t), d)
    ELSE t > 0 /\ NatLess(d, NatText(t))

ExponentIs(v, t) ==
    LET d == ExponentDigits(v) IN
    IF t <= 0 THEN (t = 0 \/ ExponentNegative(v)) /\ d = NatText(0 - t)
    ELSE ~ExponentNegative(v) /\ d = NatText(t)

\* json.loads reads a number too small for a float as 0.0: a number that is
\* not zero and is 0.d1d2... * 10^m with m < -323, or with m = -323 and
\* digits up to those of HalfMinFloat.  (A number without fraction and
\* exponent is an int and is never rounded; its magnitude is positive.)
Underflows(v) ==
    LET t == (0 - 323) - MantissaMagnitude(v) IN
    /\ Significand(v) # ""
    /\ \/ ExponentLess(v, t)
       \/ ExponentIs(v, t) /\ DigitsLeq(Significand(v), HalfMinFloat)

\* The number json.loads reads from v is zero: 0, 0.0, -0.0, 0e5, 1e-400.
IsZero(v) ==
    /\ IsNumber(v)
    /\ \/ Significand(v) = ""
       \/ Underflows(v)

\* bool(v) of a value written as JSON text; a missing dict key reads as None.
\* None, False, a zero number and the empty str, list and dict are falsy.
Truthy(v) ==
    /\ v \notin {Absent, "null", "false", "\"\"", "[]", "{}"}
    /\ ~IsZero(v)

\* d.get(k, default) of a dict.
DictGet(d, k, default) == IF d.items[k] = Absent THEN default ELSE d.items[k]

-----------------------------------------------------------------------------
(* Exceptions *)

\* cls.__base__ of the exception classes the handler can meet, by class; the
\* chain of every class ends in BaseException and object.
Bases ==
       "httpx.ConnectError"          :> "httpx.NetworkError"
    @@ "httpx.ReadError"             :> "httpx.NetworkError"
    @@ "httpx.NetworkError"          :> "httpx.TransportError"
    @@ "httpx.ReadTimeout"           :> "httpx.TimeoutException"
    @@ "httpx.ConnectTimeout"        :> "httpx.TimeoutException"
    @@ "httpx.TimeoutException"      :> "httpx.TransportError"
    @@ "httpx.TransportError"        :> "httpx.RequestError"
    @@ "httpx.RequestError"          :> "httpx.HTTPError"
    @@ "httpx.HTTPError"             :> "Exception"
    @@ "httpx.InvalidURL"            :> "Exception"
    @@ "json.JSONDecodeError"        :> "ValueError"
    @@ "UnicodeDecodeError"          :> "UnicodeError"
    @@ "UnicodeError"                :> "ValueError"
    @@ "ValueError"                  :> "Exception"
    @@ "TypeError"                   :> "Exception"
    @@ "ImportError"                 :> "Exception"
    @@ "AttributeError"              :> "Exception"
    @@ "fastapi.HTTPException"       :> "starlette.HTTPException"
    @@ "starlette.HTTPException"     :> "Exception"
    @@ "starlette.ClientDisconnect"  :> "Exception"
    @@ "litellm.AuthenticationError" :> "openai.AuthenticationError"
    @@ "openai.AuthenticationError"  :> "openai.APIStatusError"
    @@ "openai.APIStatusError"       :> "openai.APIError"
    @@ "openai.APIError"             :> "openai.OpenAIError"
    @@ "openai.OpenAIError"          :> "Exception"
    @@ "asyncio.CancelledError"      :> "BaseException"
    @@ "KeyboardInterrupt"           :> "BaseException"
    @@ "SystemExit"                  :> "BaseException"
    @@ "Exception"                   :> "BaseException"
    @@ "BaseException"               :> "object"

Base(cls) == Bases[cls]

\* isinstance(e, target), which is what an except clause tests: target is the
\* class of e or one of its ancestors.
RECURSIVE IsInstance(_, _)
IsInstance(cls, target) ==
    IF cls = target THEN TRUE
    ELSE IF cls = "object" THEN FALSE
    ELSE IsInstance(Base(cls), target)

Raise(cls, msg) == [cls |-> cls, msg |-> msg, status_code |-> 0, detail |-> ""]

\* HTTPException(status_code=..., detail=...)
HTTPException(status, detail) ==
    [cls |-> "fastapi.HTTPException", msg |-> "",
     status_code |-> status, detail |-> detail]

\* str(e).  starlette's HTTPException.__str__ gives "<status_code>: <detail>";
\* every other exception gives its message.
Str(e) ==
    IF IsInstance(e.cls, "starlette.HTTPException")
    THEN ToString(e.status_code) \o ": " \o e.detail
    ELSE e.msg

-----------------------------------------------------------------------------
(* Inbound requests *)

MsgBody == "{\"messages\": [{\"role\": \"user\", \"content\": \"hi\"}]}"

FullBody ==
    "{\"model\": \"gpt-4o\", \"messages\": [{\"role\": \"user\", \"content\": \"hi\"}], \"temperature\": 0, \"max_tokens\": 100}"

HiMessages == "[{\"role\": \"user\", \"content\": \"hi\"}]"

\* A request body: its bytes are the UTF-8 encoding of text, or, when utf8 is
\* FALSE, bytes that are not valid UTF-8.
Utf8(text) == [utf8 |-> TRUE, text |-> text]

BadUtf8 == [utf8 |-> FALSE, text |-> "<0xff>"]

Bodies ==
    { Utf8(""), Utf8("{}"), Utf8("{\"messages\": []}"), Utf8("{\"messages\": null}"),
      Utf8("{\"messages\": -0.0}"), Utf8("{\"messages\": 1e-1000100}"),
      Utf8(MsgBody), Utf8(FullBody), Utf8("[1]"), Utf8("{\"messages\""), BadUtf8 }

Methods == {"GET", "POST", "PUT", "DELETE", "PATCH"}

Req(method, path, auth, body) ==
    [method |-> method, path |-> path,
     headers |-> [authorization |-> auth, origin |-> Absent, cookie |-> Absent,
                  access_control_request_method |-> Absent,
                  access_control_request_headers |-> Absent],
     body |-> body]

\* The request req sent by a browser from the page origin.
FromOrigin(req, origin) == [req EXCEPT !.headers.origin = origin]

\* The request req sent with a Cookie header.
WithCookie(req, cookie) == [req EXCEPT !.headers.cookie = cookie]

\* The preflight request a browser sends before a cross-origin request with
\* the given method and headers.
PreflightReq(path, origin, method, headers) ==
    [method |-> "OPTIONS", path |-> path,
     headers |-> [authorization |-> Absent, origin |-> origin, cookie |-> Absent,
                  access_control_request_method |-> method,
                  access_control_request_headers |-> headers],
     body |-> Utf8("")]

\* Requests that no handler of the file answers, and requests with an Origin
\* header: GET /docs, HEAD /health, a preflight, and GET /health from a page
\* of example.com, without and with a cookie.
OtherInputs ==
    { Req("GET", "docs", Absent, Utf8("")),
      Req("HEAD", "health", Absent, Utf8("")),
      PreflightReq("v1/chat/completions", "http://example.com", "POST",
                   "authorization,content-type"),
      FromOrigin(Req("GET", "health", Absent, Utf8("")), "http://example.com"),
      WithCookie(FromOrigin(Req("GET", "health", Absent, Utf8("")), "http://example.com"),
                 "session=1") }

\* The requests the model sends: every body by POST with a bearer credential,
\* a well-formed body without an Authorization header (Absent), a body
\* without messages under another method and on the path health, GET /health
\* and the requests of OtherInputs.
RequestInputs ==
    { Req("POST", "v1/chat/completions", "Bearer abc123", b) : b \in Bodies }
    \cup { Req("GET", "v1/chat/completions", "Bearer abc123", Utf8("{}")),
           Req("POST", "health", "Bearer abc123", Utf8("{}")),
           Req("POST", "v1/chat/completions", Absent, Utf8(MsgBody)),
           Req("GET", "health", Absent, Utf8("")) }
    \cup OtherInputs

\* os.environ, which httpx.AsyncClient() reads for its proxy settings: the
\* process runs without proxy variables, or with ALL_PROXY set to a URL with
\* a scheme httpx does not know, or to a URL whose port is not a number.
Environments ==
    { [ALL_PROXY |-> Absent],
      [ALL_PROXY |-> "bogus://127.0.0.1:1"],
      [ALL_PROXY |-> "http://127.0.0.1:notaport"] }

-----------------------------------------------------------------------------
(* Objects *)

NoMethod == [has |-> FALSE]

NoAttr == [has |-> FALSE]

\* None: it has neither a model_dump method nor a __dict__.
PyNone == [type |-> "NoneType", model_dump |-> NoMethod, dict |-> NoAttr]

\* A value without model_dump and without __dict__.  type is the class
\* json.dumps takes the value for (dict for an instance of dict or of a
\* subclass of dict, and so on for list, tuple, str, int, float and bool), or
\* the tp_name of its class when json.dumps knows none of its classes.
PyJson(type, order, items) ==
    [type |-> type, order |-> order, items |-> items,
     model_dump |-> NoMethod, dict |-> NoAttr]

\* A dict with str keys: order has its keys in the order of insertion, and
\* items has for each key the value written as JSON text, as json.dumps
\* writes it with its default separators, with NaN, Infinity and -Infinity
\* for the floats that are out of range and <T object> for an object of a
\* class T that json.dumps does not know.  (items of a request body has all
\* of Keys, with Absent for a key the dict does not have, and a number as the
\* body writes it.)
PyDict(order, d) == PyJson("dict", order, d)

\* A list, a tuple, a str or a number, written as JSON text the same way.
PyValue(type, text) == PyJson(type, <<>>, [text |-> text])

\* An instance of a class: type is the tp_name of the class, which is its
\* name for a class written in Python and for a builtin, and the name after
\* that of its module for a class of a module written in C
\* (types.SimpleNamespace); model_dump is NoMethod or what calling it does,
\* dict is NoAttr or the value of __dict__.
PyObject(type, model_dump, dict) ==
    [type |-> type, model_dump |-> model_dump, dict |-> dict]

Returns(v) == [has |-> TRUE, raised |-> <<>>, value |-> v]

Raises(e) == [has |-> TRUE, raised |-> <<e>>, value |-> PyNone]

Attr(v) == [has |-> TRUE, value |-> v]

-----------------------------------------------------------------------------
(* Lines 60-63: body_data *)

Ok(v) == [raised |-> <<>>, value |-> v]

Err(e) == [raised |-> <<e>>, value |-> PyNone]

Items(model, messages, temperature, max_tokens) ==
    [model |-> model, messages |-> messages,
     temperature |-> temperature, max_tokens |-> max_tokens]

\* json.loads on the texts of Bodies.
JsonLoads(text) ==
    CASE text = "{}" -> Ok(PyDict(<<>>, EmptyItems))
      [] text = "{\"messages\": []}" -> Ok(PyDict(<<"messages">>, Items(Absent, "[]", Absent, Absent)))
      [] text = "{\"messages\": null}" -> Ok(PyDict(<<"messages">>, Items(Absent, "null", Absent, Absent)))
      [] text = "{\"messages\": -0.0}" -> Ok(PyDict(<<"messages">>, Items(Absent, "-0.0", Absent, Absent)))
      [] text = "{\"messages\": 1e-1000100}" ->
            Ok(PyDict(<<"messages">>, Items(Absent, "1e-1000100", Absent, Absent)))
      [] text = MsgBody -> Ok(PyDict(<<"messages">>, Items(Absent, HiMessages, Absent, Absent)))
      [] text = FullBody ->
            Ok(PyDict(<<"model", "messages", "temperature", "max_tokens">>,
                      Items("\"gpt-4o\"", HiMessages, "0", "100")))
      [] text = "[1]" -> Ok(PyValue("list", "[1]"))
      [] text = "{\"messages\"" ->
            Err(Raise("json.JSONDecodeError",
                      "Expecting ':' delimiter: line 1 column 12 (char 11)"))

\* body.decode('utf-8')
Decode(body) ==
    IF body.utf8 THEN Ok(body.text)
    ELSE Err(Raise("UnicodeDecodeError",
                   "'utf-8' codec can't decode byte 0xff in position 0: invalid start byte"))

\* Lines 60-63.  Empty bytes are falsy and give {}; a JSONDecodeError is
\* caught and gives {}; any other exception leaves the inner try.
ParseBody(body) ==
    IF body = Utf8("") THEN Ok(PyDict(<<>>, EmptyItems))
    ELSE LET text == Decode(body) IN
         IF text.raised # <<>> THEN Err(text.raised[1])
         ELSE LET loaded == JsonLoads(text.value) IN
              IF loaded.raised = <<>> THEN loaded
              ELSE IF IsInstance(loaded.raised[1].cls, "json.JSONDecodeError")
                   THEN Ok(PyDict(<<>>, EmptyItems))
                   ELSE loaded

-----------------------------------------------------------------------------
(* Lines 65-78: validation and the arguments of litellm.acompletion *)

LITELLM_BASE_URL == "http://localhost:4000"

\* The characters json.dumps writes with a backslash, among those a string of
\* the model can hold; with ensure_ascii=False (JSONResponse) every other
\* character is written as it is.
JsonEscapes ==
    "\"" :> "\\\"" @@ "\\" :> "\\\\" @@ "\n" :> "\\n" @@ "\r" :> "\\r" @@
    "\t" :> "\\t" @@ "\f" :> "\\f"

Escaped == DOMAIN JsonEscapes

\* s with each character of Escaped written with its backslash.
RECURSIVE Escape(_)
Escape(s) ==
    IF \A i \in 1..Len(s) : SubSeq(s, i, i) \notin Escaped THEN s
    ELSE LET b == Before(s, Escaped) IN
         b \o JsonEscapes[SubSeq(s, Len(b) + 1, Len(b) + 1)]
           \o Escape(SubSeq(s, Len(b) + 2, Len(s)))

\* json.dumps of the str s.
JsonStr(s) == "\"" \o Escape(s) \o "\""

\* ValidateMessages without the check of line 66.
ValidateMessagesUnchecked(body_data) ==
    IF body_data.type # "dict"
    THEN Err(Raise("AttributeError",
                   "'" \o body_data.type \o "' object has no attribute 'get'"))
    ELSE Ok(body_data)

\* Lines 66-67.  body_data.get is looked up first: a value that is not a dict
\* has no .get.
ValidateMessages(body_data) ==
    IF body_data.type # "dict"
    THEN Err(Raise("AttributeError",
                   "'" \o body_data.type \o "' object has no attribute 'get'"))
    ELSE IF ~Truthy(DictGet(body_data, "messages", Absent))
         THEN Err(HTTPException(400, "Messages field is required"))
         ELSE Ok(body_data)

\* Line 76: request.headers.get("Authorization", "").replace("Bearer ", "")
ApiKey(headers) ==
    Remove(IF headers.authorization = Absent THEN "" ELSE headers.authorization,
           "Bearer ")

\* d.get(k) or default: a falsy value is replaced too.
DictGetOr(d, k, default) == IF Truthy(d.items[k]) THEN d.items[k] ELSE default

\* CompletionArgs with `.get(k) or default` in place of `.get(k, default)`.
CompletionArgsOrDefault(req, body_data) ==
    [model       |-> DictGetOr(body_data, "model", JsonStr("claude-3-5-haiku-20241022")),
     messages    |-> DictGetOr(body_data, "messages", "[]"),
     temperature |-> DictGetOr(body_data, "temperature", "0.7"),
     base_url    |-> LITELLM_BASE_URL,
     api_key     |-> ApiKey(req.headers),
     max_tokens  |-> DictGetOr(body_data, "max_tokens", "20")]

\* Lines 71-78: the keyword arguments of the call.
CompletionArgs(req, body_data) ==
    [model       |-> DictGet(body_data, "model", JsonStr("claude-3-5-haiku-20241022")),
     messages    |-> DictGet(body_data, "messages", "[]"),
     temperature |-> DictGet(body_data, "temperature", "0.7"),
     base_url    |-> LITELLM_BASE_URL,
     api_key     |-> ApiKey(req.headers),
     max_tokens  |-> DictGet(body_data, "max_tokens", "20")]

\* Line 52: what awaiting request.body() can do.  It returns the bytes the
\* client sent, raises ClientDisconnect when the client goes away before its
\* body is complete, or raises CancelledError when the handler's task is
\* cancelled while it waits.
ReadOutcomes(req) ==
    { Ok(req.body),
      Err(Raise("starlette.ClientDisconnect", "")),
      Err(Raise("asyncio.CancelledError", "")) }

\* Lines 52-78, run when request.body() returns or raises (read): the
\* exception that reaches the except clauses, or the arguments acompletion is
\* called with.  normalized tells whether line 61 was reached.
HandleBody(req, read) ==
    IF read.raised # <<>>
    THEN [raised |-> read.raised, call |-> <<>>, normalized |-> FALSE]
    ELSE LET parsed == ParseBody(read.value) IN
         IF parsed.raised # <<>>
         THEN [raised |-> parsed.raised, call |-> <<>>, normalized |-> TRUE]
         ELSE LET valid == ValidateMessages(parsed.value) IN
              IF valid.raised # <<>>
              THEN [raised |-> valid.raised, call |-> <<>>, normalized |-> TRUE]
              ELSE [raised |-> <<>>, call |-> <<CompletionArgs(req, valid.value)>>,
                    normalized |-> TRUE]

\* Invocations with the call repeated.
InvocationsRepeated(call) == call \o call

\* Line 71: acompletion is awaited once, outside any loop.
Invocations(call) == call

-----------------------------------------------------------------------------
(* Lines 112-120: the except clauses, and the response FastAPI builds from
   the HTTPException they raise *)

\* ExceptClauses with the generic clause first.
ExceptClausesGenericFirst(e) ==
    IF IsInstance(e.cls, "Exception")
    THEN HTTPException(500, "Proxy error: " \o Str(e))
    ELSE IF IsInstance(e.cls, "httpx.RequestError")
         THEN HTTPException(502, "Error connecting to LiteLLM server: " \o Str(e))
         ELSE e

\* The exception that leaves the try statement of line 50 when e is raised in
\* it.  The clauses are tried in order and the first whose class matches runs;
\* an exception that is not an Exception matches neither and goes on.
ExceptClauses(e) ==
    IF IsInstance(e.cls, "httpx.RequestError")
    THEN HTTPException(502, "Error connecting to LiteLLM server: " \o Str(e))
    ELSE IF IsInstance(e.cls, "Exception")
         THEN HTTPException(500, "Proxy error: " \o Str(e))
         ELSE e

\* Whether one of the except clauses ran for e.
Caught(e) == IsInstance(e.cls, "Exception")

JsonHeaders == [content_type |-> "application/json"]

\* ErrorResponse of a handler that returns the detail in a JSONResponse with
\* the default status instead of raising.
ErrorResponseDefaultStatus(e) ==
    [status_code |-> 200,
     content |-> PyDict(<<"detail">>, [detail |-> JsonStr(e.detail)]),
     headers |-> JsonHeaders]

\* An HTTPException that leaves the handler is answered by FastAPI with its
\* status code and the body {"detail": detail}.
ErrorResponse(e) ==
    [status_code |-> e.status_code,
     content |-> PyDict(<<"detail">>, [detail |-> JsonStr(e.detail)]),
     headers |-> JsonHeaders]

\* Lines 15-21: CORSMiddleware adds its headers to the response of a request
\* that has an Origin header: Access-Control-Allow-Origin "*" in place of the
\* response's own, and Access-Control-Allow-Credentials.  When the request
\* has a Cookie header too it sends the origin in place of "*" and adds
\* Origin to the Vary header.
Cors(req, resp) ==
    IF req.headers.origin = Absent THEN resp
    ELSE LET has_cookie == req.headers.cookie # Absent
             added == {"allow_origin", "allow_credentials"}
                      \cup (IF has_cookie THEN {"vary"} ELSE {})
         IN  [status_code |-> resp.status_code,
              content |-> resp.content,
              headers |->
                 [h \in DOMAIN resp.headers \cup added |->
                     IF h = "allow_origin"
                     THEN IF has_cookie THEN req.headers.origin ELSE "*"
                     ELSE IF h = "allow_credentials" THEN "true"
                     ELSE IF h = "vary"
                          THEN IF "vary" \in DOMAIN resp.headers
                               THEN resp.headers.vary \o ", Origin"
                               ELSE "Origin"
                     ELSE resp.headers[h]]]

\* An exception of another class that leaves the handler is answered by
\* Starlette with the plain text "Internal Server Error", outside the CORS
\* middleware.
InternalServerError ==
    [status_code |-> 500,
     content |-> PyValue("str", "Internal Server Error"),
     headers |-> [content_type |-> "text/plain; charset=utf-8"]]

\* The responses the application sends when e leaves the handler of req: one
\* for an Exception, none for an exception that is not an Exception, which
\* leaves the application too.
Unhandled(req, e) ==
    IF IsInstance(e.cls, "starlette.HTTPException") THEN <<Cors(req, ErrorResponse(e))>>
    ELSE IF IsInstance(e.cls, "Exception") THEN <<InternalServerError>>
    ELSE <<>>

\* Line 49: httpx.AsyncClient() in each environment of Environments.  Without
\* proxy variables it makes a client.  It makes a URL of the proxy setting
\* and raises httpx.InvalidURL when the text is not a URL, and ValueError when
\* the scheme of the URL is not one of http, https, socks5 and socks5h.
NewAsyncClient(env) ==
    CASE env.ALL_PROXY = Absent -> Ok(PyNone)
      [] env.ALL_PROXY = "bogus://127.0.0.1:1" ->
            Err(Raise("ValueError",
                      "Unknown scheme for proxy URL URL('bogus://127.0.0.1:1')"))
      [] env.ALL_PROXY = "http://127.0.0.1:notaport" ->
            Err(Raise("httpx.InvalidURL", "Invalid port: 'notaport'"))

-----------------------------------------------------------------------------
(* What litellm.acompletion can do *)

XDict == PyDict(<<"id", "choices">>, [id |-> JsonStr("x"), choices |-> "[]"])

XAttrs ==
    PyDict(<<"id", "choices", "_hidden_params">>,
           [id |-> JsonStr("x"), choices |-> "[]", _hidden_params |-> "{}"])

\* A __dict__ that holds, in a list, an object json.dumps cannot serialise,
\* and after it a float that is out of range.
ObjAttrs ==
    PyDict(<<"id", "choices", "score">>,
           [id |-> JsonStr("x"), choices |-> "[<Choices object>]", score |-> "NaN"])

BackendOutcomes ==
    { Err(Raise("httpx.ConnectError", "All connection attempts failed")),
      Err(Raise("litellm.AuthenticationError", "invalid x-api-key")),
      Err(Raise("asyncio.CancelledError", "")),
      Ok(PyNone),
      Ok(PyObject("ModelResponse", Returns(XDict), Attr(XAttrs))),
      Ok(PyObject("ModelResponse", Returns(PyNone), Attr(XAttrs))),
      Ok(PyObject("ModelResponse", Raises(Raise("ValueError", "boom")), Attr(XAttrs))),
      Ok(PyObject("ModelResponse",
                  Raises(Raise("AttributeError", "'NoneType' object has no attribute 'usage'")),
                  Attr(XAttrs))),
      Ok(PyObject("types.SimpleNamespace", NoMethod, Attr(XAttrs))),
      Ok(PyObject("types.SimpleNamespace", NoMethod, Attr(ObjAttrs))),
      Ok(PyObject("types.SimpleNamespace", NoMethod, Attr(PyNone))),
      Ok(XDict) }

-----------------------------------------------------------------------------
(* Lines 79-110: from the backend's result to the JSONResponse *)

\* CheckResponse without the None check of line 83.
CheckResponseNoNullCheck(outcome) == outcome

\* Lines 71-84: an exception of acompletion propagates; None raises.
CheckResponse(outcome) ==
    IF outcome.raised # <<>> THEN outcome
    ELSE IF outcome.value.type = "NoneType"
         THEN Err(HTTPException(500, "LiteLLM returned null response"))
         ELSE outcome

\* response.model_dump(): a missing method is an AttributeError, whose
\* message names the class by its tp_name.
CallModelDump(response) ==
    IF response.model_dump.has THEN response.model_dump
    ELSE Raises(Raise("AttributeError",
                      "'" \o response.type \o "' object has no attribute 'model_dump'"))

\* ConvertResponse without the else branch of line 94: the AttributeError of a
\* value with no __dict__ propagates.
ConvertResponseNoFallback(response) ==
    LET dumped == CallModelDump(response) IN
    IF dumped.raised = <<>> THEN Ok(dumped.value)
    ELSE IF IsInstance(dumped.raised[1].cls, "AttributeError") /\ response.dict.has
         THEN Ok(response.dict.value)
         ELSE Err(dumped.raised[1])

\* Lines 88-99.
ConvertResponse(response) ==
    LET dumped == CallModelDump(response)
        response_dict ==
            IF dumped.raised = <<>> THEN Ok(dumped.value)
            ELSE IF IsInstance(dumped.raised[1].cls, "AttributeError")
                 THEN IF response.dict.has
                      THEN Ok(response.dict.value)
                      ELSE Ok(PyDict(<<"error">>,
                                [error |-> JsonStr("Invalid response format from LiteLLM")]))
                 ELSE Err(dumped.raised[1])
    IN  IF response_dict.raised # <<>> THEN response_dict
        ELSE IF response_dict.value.type = "NoneType"
             THEN Ok(PyDict(<<"error">>, [error |-> JsonStr("Empty response from LiteLLM")]))
             ELSE response_dict

\* type(o).__name__ of an object whose type has the tp_name type: the part
\* of tp_name after its last dot.
ClassName(type) ==
    LET dots == {i \in 1..Len(type) : SubSeq(type, i, i) = "."} IN
    IF dots = {} THEN type
    ELSE SubSeq(type, (CHOOSE i \in dots : \A j \in dots : j <= i) + 1, Len(type))

\* The classes json.dumps writes.
JsonTypes == {"dict", "list", "tuple", "str", "int", "float", "bool", "NoneType"}

\* ValueError of json.dumps with allow_nan=False on a float that is nan, inf
\* or -inf, with the message of Python 3.11, on which the application's
\* packages are installed.  (From Python 3.12 on the message ends with a
\* colon and the repr of the float.)
OutOfRange == Raise("ValueError", "Out of range float values are not JSON compliant")

\* The exception json.dumps raises on the first value, from position i of
\* the text v on, that it cannot write: TypeError on an object of a class it
\* does not know, ValueError on a float that is out of range.  Characters
\* inside a str are skipped.
RECURSIVE ScanText(_, _, _)
ScanText(v, i, inString) ==
    IF i > Len(v) THEN <<>>
    ELSE LET c == SubSeq(v, i, i) IN
         IF inString
         THEN IF c = "\\" THEN ScanText(v, i + 2, TRUE)
              ELSE ScanText(v, i + 1, c # "\"")
         ELSE IF c = "\"" THEN ScanText(v, i + 1, TRUE)
         ELSE IF c = "<"
              THEN << Raise("TypeError",
                            "Object of type " \o Before(SubSeq(v, i + 1, Len(v)), {" "})
                            \o " is not JSON serializable") >>
         ELSE IF c \in {"N", "I"} THEN << OutOfRange >>
         ELSE ScanText(v, i + 1, FALSE)

\* The exception json.dumps raises on the value written as the text v, none
\* when it writes it; a text without <, N and I has nothing to raise on.
TextError(v) ==
    IF \A i \in 1..Len(v) : SubSeq(v, i, i) \notin {"<", "N", "I"} THEN <<>>
    ELSE ScanText(v, 1, FALSE)

\* The exception json.dumps raises on the items of the dict d from the i-th
\* key on: that of the first item, in the order of the dict, it cannot write.
RECURSIVE ItemsError(_, _)
ItemsError(d, i) ==
    IF i > Len(d.order) THEN <<>>
    ELSE LET e == TextError(d.items[d.order[i]]) IN
         IF e # <<>> THEN e ELSE ItemsError(d, i + 1)

\* The exception json.dumps(content, allow_nan=False) raises, none when it
\* writes the content.
RenderError(d) ==
    IF d.type \notin JsonTypes
    THEN << Raise("TypeError",
                  "Object of type " \o ClassName(d.type) \o " is not JSON serializable") >>
    ELSE IF d.type = "NoneType" THEN <<>>
    ELSE IF d.type = "dict" THEN ItemsError(d, 1)
    ELSE TextError(d.items.text)

\* json.dumps writes the content.
Serializable(d) == RenderError(d) = <<>>

SuccessHeaders ==
    [content_type |-> "application/json", allow_origin |-> "*",
     allow_methods |-> "*", allow_headers |-> "*"]

\* Lines 101-110: JSONResponse renders its content when it is constructed.
MakeJSONResponse(response_dict) ==
    LET e == RenderError(response_dict) IN
    IF e # <<>> THEN Err(e[1])
    ELSE Ok([status_code |-> 200, content |-> response_dict, headers |-> SuccessHeaders])

\* Lines 79-110, run when acompletion returns or raises.  normalized tells
\* whether line 88 was reached.
HandleResult(outcome) ==
    LET checked == CheckResponse(outcome) IN
    IF checked.raised # <<>>
    THEN [raised |-> checked.raised, response |-> <<>>, normalized |-> FALSE]
    ELSE LET converted == ConvertResponse(checked.value) IN
         IF converted.raised # <<>>
         THEN [raised |-> converted.raised, response |-> <<>>, normalized |-> TRUE]
         ELSE LET built == MakeJSONResponse(converted.value) IN
              IF built.raised # <<>>
              THEN [raised |-> built.raised, response |-> <<>>, normalized |-> TRUE]
              ELSE [raised |-> <<>>, response |-> <<built.value>>, normalized |-> TRUE]

-----------------------------------------------------------------------------
(* Routing and the handlers' steps *)

\* Line 12: FastAPI() registers its own routes, for GET and HEAD, before the
\* routes of lines 38 and 42.  The path of the model is the path of the URL
\* without its leading slash.
DocsRoutes ==
    [p \in {"openapi.json", "docs", "docs/oauth2-redirect", "redoc"} |->
        CASE p = "openapi.json"         -> "openapi"
          [] p = "docs"                 -> "swagger_ui_html"
          [] p = "docs/oauth2-redirect" -> "swagger_ui_redirect"
          [] p = "redoc"                -> "redoc_html"]

DocsEndpoints == {DocsRoutes[p] : p \in DOMAIN DocsRoutes}

\* Route with the catch-all route registered before /health.
RouteCatchAllFirst(req) ==
    IF req.method \in {"GET", "HEAD"} /\ req.path \in DOMAIN DocsRoutes
    THEN DocsRoutes[req.path]
    ELSE IF req.method \in Methods THEN "proxy_to_litellm"
    ELSE "method_not_allowed"

\* Lines 12, 38 and 42: the first route whose path and method match.
Route(req) ==
    IF req.method \in {"GET", "HEAD"} /\ req.path \in DOMAIN DocsRoutes
    THEN DocsRoutes[req.path]
    ELSE IF req.method = "GET" /\ req.path = "health" THEN "health_check"
    ELSE IF req.method \in Methods THEN "proxy_to_litellm"
    ELSE "method_not_allowed"

\* The methods of the first route whose path matches the path of req.
AllowedMethods(req) ==
    IF req.path \in DOMAIN DocsRoutes THEN {"GET", "HEAD"}
    ELSE IF req.path = "health" THEN {"GET"}
    ELSE Methods

\* Starlette's answer to a request whose method no route of its path allows.
\* The Allow header names the methods of the first such route; it is kept as
\* a set, the order of the names being that of a Python set.
MethodNotAllowedResponse(req) ==
    [status_code |-> 405,
     content |-> PyDict(<<"detail">>, [detail |-> JsonStr("Method Not Allowed")]),
     headers |-> [content_type |-> "application/json", allow |-> AllowedMethods(req)]]

\* Lines 15-21: CORSMiddleware answers itself an OPTIONS request that has the
\* headers Origin and Access-Control-Request-Method.
IsPreflight(req) ==
    /\ req.method = "OPTIONS"
    /\ req.headers.origin # Absent
    /\ req.headers.access_control_request_method # Absent

\* allow_methods=["*"] (line 19) stands for these methods.
CorsMethods == {"DELETE", "GET", "HEAD", "OPTIONS", "PATCH", "POST", "PUT"}

\* Lines 15-21: the answer to a preflight.  Every origin is allowed, and with
\* allow_credentials the origin itself is sent back; a requested method that
\* is not among CorsMethods is refused; with allow_headers=["*"] the headers
\* the request asks for, if it names any, are sent back as they are.
PreflightResponse(req) ==
    LET allowed == req.headers.access_control_request_method \in CorsMethods
        requested_headers == req.headers.access_control_request_headers
        preflight_headers ==
            [content_type |-> "text/plain; charset=utf-8",
             vary |-> "Origin",
             allow_origin |-> req.headers.origin,
             allow_methods |-> "DELETE, GET, HEAD, OPTIONS, PATCH, POST, PUT",
             max_age |-> "600",
             allow_credentials |-> "true"]
    IN  [status_code |-> IF allowed THEN 200 ELSE 400,
         content |-> PyValue("str", IF allowed THEN "OK" ELSE "Disallowed CORS method"),
         headers |->
            IF requested_headers = Absent THEN preflight_headers
            ELSE [h \in DOMAIN preflight_headers \cup {"allow_headers"} |->
                     IF h = "allow_headers" THEN requested_headers
                     ELSE preflight_headers[h]]]

\* Where a request goes: to the CORS middleware when it is a preflight, and
\* to the route that matches it otherwise.
Dispatch(req) == IF IsPreflight(req) THEN "cors_preflight" ELSE Route(req)

\* Lines 38-40.
HealthResponse ==
    [status_code |-> 200,
     content |-> PyDict(<<"status">>, [status |-> JsonStr("healthy")]),
     headers |-> JsonHeaders]

\* Line 12: the documents FastAPI serves, by their kind and title: the OpenAPI
\* schema of the application as JSON, and three HTML pages.
DocsResponse(endpoint) ==
    [status_code |-> 200,
     content |->
        CASE endpoint = "openapi" ->
                PyJson("openapi", <<>>, [title |-> "LiteLLM Proxy Server", version |-> "1.0.0"])
          [] endpoint = "swagger_ui_html" ->
                PyJson("html", <<>>, [title |-> "LiteLLM Proxy Server - Swagger UI"])
          [] endpoint = "swagger_ui_redirect" ->
                PyJson("html", <<>>, [title |-> "Swagger UI: OAuth2 Redirect"])
          [] endpoint = "redoc_html" ->
                PyJson("html", <<>>, [title |-> "LiteLLM Proxy Server - ReDoc"]),
     headers |->
        [content_type |-> IF endpoint = "openapi" THEN "application/json"
                          ELSE "text/html; charset=utf-8"]]

\* ClientAfterExit of a client that is never closed.
ClientLeftOpen(open) == open

\* Line 49: leaving the async with block closes the client, whether the block
\* returns or raises.
ClientAfterExit(open) == FALSE

\* pc of a handler that has ended, after the responses sent for it.
Ended(sent) == IF sent = <<>> THEN "ended_without_response" ELSE "responded"

Init ==
    /\ pc = [r \in Requests |-> "idle"]
    /\ request = [r \in Requests |-> <<>>]
    /\ environ \in Environments
    /\ clientOpen = [r \in Requests |-> FALSE]
    /\ requestBody = [r \in Requests |-> <<>>]
    /\ calls = [r \in Requests |-> <<>>]
    /\ backend = [r \in Requests |-> <<>>]
    /\ responses = [r \in Requests |-> <<>>]
    /\ phases = [r \in Requests |-> <<>>]

\* GET /health: health_check answers at once.
Health(r, req) ==
    /\ pc[r] = "idle"
    /\ Dispatch(req) = "health_check"
    /\ request' = [request EXCEPT ![r] = <<req>>]
    /\ responses' = [responses EXCEPT ![r] = Append(@, Cors(req, HealthResponse))]
    /\ pc' = [pc EXCEPT ![r] = "responded"]
    /\ UNCHANGED <<environ, clientOpen, requestBody, calls, backend, phases>>

\* GET or HEAD on a documentation path: FastAPI answers at once, and no
\* handler of the file runs.
Docs(r, req) ==
    /\ pc[r] = "idle"
    /\ Dispatch(req) \in DocsEndpoints
    /\ request' = [request EXCEPT ![r] = <<req>>]
    /\ responses' = [responses EXCEPT ![r] =
           Append(@, Cors(req, DocsResponse(Dispatch(req))))]
    /\ pc' = [pc EXCEPT ![r] = "responded"]
    /\ UNCHANGED <<environ, clientOpen, requestBody, calls, backend, phases>>

\* A request whose method no route of its path allows (HEAD /health, OPTIONS
\* on any path): Starlette's router answers 405 at once.
MethodNotAllowed(r, req) ==
    /\ pc[r] = "idle"
    /\ Dispatch(req) = "method_not_allowed"
    /\ request' = [request EXCEPT ![r] = <<req>>]
    /\ responses' = [responses EXCEPT ![r] =
           Append(@, Cors(req, MethodNotAllowedResponse(req)))]
    /\ pc' = [pc EXCEPT ![r] = "responded"]
    /\ UNCHANGED <<environ, clientOpen, requestBody, calls, backend, phases>>

\* Lines 15-21: a preflight is answered by the CORS middleware at once, and
\* no route runs.
Preflight(r, req) ==
    /\ pc[r] = "idle"
    /\ Dispatch(req) = "cors_preflight"
    /\ request' = [request EXCEPT ![r] = <<req>>]
    /\ responses' = [responses EXCEPT ![r] = Append(@, PreflightResponse(req))]
    /\ pc' = [pc EXCEPT ![r] = "responded"]
    /\ UNCHANGED <<environ, clientOpen, requestBody, calls, backend, phases>>

\* Lines 43-52: proxy_to_litellm opens the client and awaits the body.  Line 49
\* is outside the try statement: an exception of httpx.AsyncClient() leaves
\* the handler at once.
Arrive(r, req) ==
    /\ pc[r] = "idle"
    /\ Dispatch(req) = "proxy_to_litellm"
    /\ request' = [request EXCEPT ![r] = <<req>>]
    /\ phases' = [phases EXCEPT ![r] = <<"RECEIVED">>]
    /\ LET made == NewAsyncClient(environ) IN
       IF made.raised # <<>>
       THEN /\ responses' = [responses EXCEPT ![r] = @ \o Unhandled(req, made.raised[1])]
            /\ pc' = [pc EXCEPT ![r] = Ended(Unhandled(req, made.raised[1]))]
            /\ UNCHANGED clientOpen
       ELSE /\ clientOpen' = [clientOpen EXCEPT ![r] = TRUE]
            /\ pc' = [pc EXCEPT ![r] = "reading_body"]
            /\ UNCHANGED responses
    /\ UNCHANGED <<environ, requestBody, calls, backend>>

\* The request that arrived at the highest-numbered handler so far.
LatestRequest ==
    LET arrived == {q \in Requests : request[q] # <<>>}
        last == CHOOSE q \in arrived : \A p \in arrived : p <= q
    IN  request[last][1]

\* BodyRead of a handler that keeps the request in a variable shared by all
\* handlers, and so works on the request that arrived last.
BodyReadShared(r, read) ==
    /\ pc[r] = "reading_body"
    /\ read \in ReadOutcomes(LatestRequest)
    /\ requestBody' = [requestBody EXCEPT ![r] = <<read>>]
    /\ \E handled \in {HandleBody(LatestRequest, read)} :
       IF handled.raised # <<>>
       THEN \E e \in {handled.raised[1]} :
            \E sent \in {Unhandled(LatestRequest, ExceptClauses(e))} :
                /\ responses' = [responses EXCEPT ![r] = @ \o sent]
                /\ clientOpen' = [clientOpen EXCEPT ![r] = ClientAfterExit(@)]
                /\ pc' = [pc EXCEPT ![r] = Ended(sent)]
                /\ phases' = [phases EXCEPT ![r] =
                       @ \o (IF handled.normalized THEN <<"NORMALIZING">> ELSE <<>>)
                         \o (IF Caught(e) THEN <<"FAILED", "RESPONDING">> ELSE <<>>)]
                /\ UNCHANGED calls
       ELSE /\ calls' = [calls EXCEPT ![r] = @ \o Invocations(handled.call)]
            /\ pc' = [pc EXCEPT ![r] = "awaiting_backend"]
            /\ phases' = [phases EXCEPT ![r] = @ \o <<"NORMALIZING", "INVOKING">>]
            /\ UNCHANGED <<clientOpen, responses>>
    /\ UNCHANGED <<request, environ, backend>>

\* Lines 52-78: request.body() returns or raises (read); the body is parsed
\* and validated.  A failure runs the except clauses and ends the request;
\* otherwise acompletion is awaited.  (handled, e and sent each name the one
\* value of a singleton, so that the lines run once in a step.)
BodyRead(r, read) ==
    /\ pc[r] = "reading_body"
    /\ read \in ReadOutcomes(request[r][1])
    /\ requestBody' = [requestBody EXCEPT ![r] = <<read>>]
    /\ \E handled \in {HandleBody(request[r][1], read)} :
       IF handled.raised # <<>>
       THEN \E e \in {handled.raised[1]} :
            \E sent \in {Unhandled(request[r][1], ExceptClauses(e))} :
                /\ responses' = [responses EXCEPT ![r] = @ \o sent]
                /\ clientOpen' = [clientOpen EXCEPT ![r] = ClientAfterExit(@)]
                /\ pc' = [pc EXCEPT ![r] = Ended(sent)]
                /\ phases' = [phases EXCEPT ![r] =
                       @ \o (IF handled.normalized THEN <<"NORMALIZING">> ELSE <<>>)
                         \o (IF Caught(e) THEN <<"FAILED", "RESPONDING">> ELSE <<>>)]
                /\ UNCHANGED calls
       ELSE /\ calls' = [calls EXCEPT ![r] = @ \o Invocations(handled.call)]
            /\ pc' = [pc EXCEPT ![r] = "awaiting_backend"]
            /\ phases' = [phases EXCEPT ![r] = @ \o <<"NORMALIZING", "INVOKING">>]
            /\ UNCHANGED <<clientOpen, responses>>
    /\ UNCHANGED <<request, environ, backend>>

\* Lines 71-120: acompletion returns or raises, and the handler finishes.
BackendCompletes(r, outcome) ==
    /\ pc[r] = "awaiting_backend"
    /\ backend' = [backend EXCEPT ![r] = Append(@, outcome)]
    /\ \E handled \in {HandleResult(outcome)} :
       \E sent \in {IF handled.raised # <<>>
                   THEN Unhandled(request[r][1], ExceptClauses(handled.raised[1]))
                   ELSE <<Cors(request[r][1], handled.response[1])>>} :
           /\ responses' = [responses EXCEPT ![r] = @ \o sent]
           /\ pc' = [pc EXCEPT ![r] = Ended(sent)]
           /\ phases' = [phases EXCEPT ![r] =
                  @ \o (IF handled.normalized THEN <<"NORMALIZING_RESPONSE">> ELSE <<>>)
                    \o (IF handled.raised = <<>> THEN <<"RESPONDING">>
                        ELSE IF Caught(handled.raised[1]) THEN <<"FAILED", "RESPONDING">>
                        ELSE <<>>)]
    /\ clientOpen' = [clientOpen EXCEPT ![r] = ClientAfterExit(@)]
    /\ UNCHANGED <<request, environ, requestBody, calls>>

\* What request.body() can do for the requests of inputs.
Reads(inputs) == UNION {ReadOutcomes(req) : req \in inputs}

\* The steps of the server when the clients send the requests of inputs.
Step(inputs) ==
    \E r \in Requests :
        \/ \E req \in inputs : Health(r, req)
        \/ \E req \in inputs : Docs(r, req)
        \/ \E req \in inputs : MethodNotAllowed(r, req)
        \/ \E req \in inputs : Preflight(r, req)
        \/ \E req \in inputs : Arrive(r, req)
        \/ \E read \in Reads(inputs) : BodyRead(r, read)
        \/ \E outcome \in BackendOutcomes : BackendCompletes(r, outcome)

Next == Step(RequestInputs)

Spec == Init /\ [][Next]_vars

\* One request for each way lines 52-78 can end: a body that is empty, not
\* UTF-8, not JSON, not a mapping, and a well-formed one; GET /health and
\* the requests of OtherInputs.
PathInputs ==
    { Req("POST", "v1/chat/completions", "Bearer abc123", b) :
          b \in {Utf8(""), BadUtf8, Utf8("{\"messages\""), Utf8("[1]"), Utf8(MsgBody)} }
    \cup { Req("GET", "health", Absent, Utf8("")) }
    \cup OtherInputs

\* The event loop resumes a handler whose awaited call has completed, and the
\* body read and the backend call eventually return or fail.
FairSpec ==
    /\ Init
    /\ [][Step(PathInputs)]_vars
    /\ \A r \in Requests :
          /\ WF_vars(\E read \in Reads(PathInputs) : BodyRead(r, read))
          /\ WF_vars(\E outcome \in BackendOutcomes : BackendCompletes(r, outcome))

\* Requests that differ in the Authorization header only, GET /health and
\* the requests of OtherInputs.
AuthInputs ==
    { Req("POST", "v1/chat/completions", a, Utf8(MsgBody)) :
          a \in {Absent, "Bearer abc123", "abc123", "Bearer Bearer abc123",
                 "Token Bearer abc123", "bearer abc123"} }
    \cup { Req("GET", "health", Absent, Utf8("")) }
    \cup OtherInputs

\* The server under the requests of AuthInputs.
AuthSpec == Init /\ [][Step(AuthInputs)]_vars

\* Requests that differ in method and path only: a well-formed body under
\* every method and on three paths, a body without messages under two
\* methods, and the requests of OtherInputs.  GET /health is answered by
\* health_check, GET /docs by FastAPI.
RouteInputs ==
    { Req(m, "v1/chat/completions", "Bearer abc123", Utf8(MsgBody)) : m \in Methods }
    \cup { Req(m, "health", "Bearer abc123", Utf8(MsgBody)) : m \in {"GET", "POST"} }
    \cup { Req(m, "docs", "Bearer abc123", Utf8(MsgBody)) : m \in {"GET", "POST"} }
    \cup { Req(m, "v1/chat/completions", "Bearer abc123", Utf8("{}")) : m \in {"GET", "POST"} }
    \cup OtherInputs

\* The server under the requests of RouteInputs.
RouteSpec == Init /\ [][Step(RouteInputs)]_vars

-----------------------------------------------------------------------------
(* Properties *)

\* The request r was routed to proxy_to_litellm and has been answered.
Answered(r) ==
    /\ pc[r] = "responded"
    /\ request[r] # <<>>
    /\ Dispatch(request[r][1]) = "proxy_to_litellm"

Response(r) == responses[r][1]

\* request.body() has returned the body of r to its handler.
Arrived(r) == requestBody[r] # <<>> /\ requestBody[r][1].raised = <<>>

\* The message of a failure response: its detail without the JSON quotes.
DetailOf(resp) ==
    LET d == resp.content.items.detail IN SubSeq(d, 2, Len(d) - 1)

IsFailure(resp) == DOMAIN resp.content.items = {"detail"}

\* Bodies that parse to a mapping without messages or with an empty messages:
\* the empty body, {}, an empty list, null, and the text that is not JSON
\* (replaced by {}).
NoMessagesBodies ==
    { Utf8(""), Utf8("{}"), Utf8("{\"messages\": []}"), Utf8("{\"messages\": null}"),
      Utf8("{\"messages\"") }

WellFormedBodies == { Utf8(MsgBody), Utf8(FullBody) }

\* C1: a request whose parsed body has no messages key or an empty messages
\* value is answered with status 400 and the message "Messages field is
\* required".
C1_MissingMessagesIs400 ==
    \A r \in Requests :
        (Answered(r) /\ Arrived(r) /\ request[r][1].body \in NoMessagesBodies)
            => /\ Response(r).status_code = 400
               /\ IsFailure(Response(r))
               /\ DetailOf(Response(r)) = "Messages field is required"

\* C2: the backend is called only for a request that passed the messages
\* check, after normalization; a request with missing or empty messages makes
\* no backend call, and the messages passed to the backend are never empty.
C2_ValidationPrecedesCall ==
    \A r \in Requests :
        /\ calls[r] # <<>> =>
              /\ request[r][1].body \in WellFormedBodies
              /\ Len(phases[r]) >= 3
              /\ SubSeq(phases[r], 1, 3) = <<"RECEIVED", "NORMALIZING", "INVOKING">>
        /\ (request[r] # <<>> /\ request[r][1].body \notin WellFormedBodies)
              => calls[r] = <<>> /\ backend[r] = <<>>
        /\ \A i \in 1..Len(calls[r]) :
              calls[r][i].messages \notin {Absent, "null", "[]", "\"\"", "{}"}

\* A request with an empty messages list was answered without a backend call
\* while another request's call was made.
C2_Witness ==
    \E r, q \in Requests :
        /\ Answered(r)
        /\ request[r][1].body = Utf8("{\"messages\": []}")
        /\ calls[r] = <<>>
        /\ Len(calls[q]) = 1
        /\ calls[q][1].messages = HiMessages

\* The outcome of the backend call of request r.
Outcome(r) == backend[r][1]

TransportFailure(r) ==
    /\ backend[r] # <<>>
    /\ Outcome(r).raised # <<>>
    /\ Outcome(r).raised[1].cls \in
          {"httpx.ConnectError", "httpx.ReadTimeout", "httpx.TransportError",
           "httpx.RequestError"}

\* C3: a backend call that fails with an httpx.RequestError is answered with
\* status 502 and "Error connecting to LiteLLM server: " followed by the
\* failure's text, never with the generic 500 "Proxy error".
C3_TransportFailureIs502 ==
    \A r \in Requests :
        (Answered(r) /\ TransportFailure(r))
            => /\ Response(r).status_code = 502
               /\ IsFailure(Response(r))
               /\ DetailOf(Response(r)) =
                     "Error connecting to LiteLLM server: " \o Outcome(r).raised[1].msg
               /\ ~Contains(DetailOf(Response(r)), "Proxy error")

C3_Witness ==
    \E r \in Requests :
        /\ Answered(r)
        /\ TransportFailure(r)
        /\ DetailOf(Response(r)) =
              "Error connecting to LiteLLM server: All connection attempts failed"

NullResult(r) ==
    /\ backend[r] # <<>>
    /\ Outcome(r).raised = <<>>
    /\ Outcome(r).value.type = "NoneType"

\* C4: a backend call that returns None is answered with status 500 and a
\* message that starts with "Proxy error: " and contains "LiteLLM returned
\* null response"; no success response is produced and the response is not
\* normalized.
C4_NullResponseIs500 ==
    \A r \in Requests :
        (Answered(r) /\ NullResult(r))
            => /\ Response(r).status_code = 500
               /\ IsFailure(Response(r))
               /\ StartsWith(DetailOf(Response(r)), "Proxy error: ")
               /\ Contains(DetailOf(Response(r)), "LiteLLM returned null response")
               /\ \A i \in 1..Len(phases[r]) : phases[r][i] # "NORMALIZING_RESPONSE"

C4_Witness ==
    \E r \in Requests :
        /\ Answered(r)
        /\ NullResult(r)
        /\ DetailOf(Response(r)) = "Proxy error: 500: LiteLLM returned null response"

\* The backend returned a value that is not None and has neither model_dump
\* nor __dict__.
NoMappingShape(r) ==
    /\ backend[r] # <<>>
    /\ Outcome(r).raised = <<>>
    /\ Outcome(r).value.type # "NoneType"
    /\ ~Outcome(r).value.model_dump.has
    /\ ~Outcome(r).value.dict.has

\* C5: a non-null backend value with neither model_dump nor __dict__ is
\* answered with status 200 and the body {"error": "Invalid response format
\* from LiteLLM"}.
C5_NoShapeIs200Error ==
    \A r \in Requests :
        (Answered(r) /\ NoMappingShape(r))
            => /\ Response(r).status_code = 200
               /\ Response(r).content.type = "dict"
               /\ Response(r).content.items =
                     [error |-> "\"Invalid response format from LiteLLM\""]

C5_Witness ==
    \E r \in Requests :
        /\ Answered(r)
        /\ NoMappingShape(r)
        /\ Response(r).status_code = 200
        /\ DOMAIN Response(r).content.items = {"error"}

\* The backend returned a value that is not None.
NonNullResult(r) ==
    /\ backend[r] # <<>>
    /\ Outcome(r).raised = <<>>
    /\ Outcome(r).value.type # "NoneType"

\* C6: whatever the backend returns, if it is not None the request is
\* answered with status 200 and a body that is a non-null mapping, also when
\* the conversion fails.
C6_NormalizationNeverFails ==
    \A r \in Requests :
        (Answered(r) /\ NonNullResult(r))
            => /\ Response(r).status_code = 200
               /\ Response(r).content.type = "dict"
               /\ ~IsFailure(Response(r))

HappyPath == <<"RECEIVED", "NORMALIZING", "INVOKING", "NORMALIZING_RESPONSE", "RESPONDING">>

IsPrefix(s, t) == Len(s) <= Len(t) /\ SubSeq(t, 1, Len(s)) = s

\* C7: a request visits RECEIVED, NORMALIZING, INVOKING, NORMALIZING_RESPONSE,
\* RESPONDING in that order, or goes to FAILED from NORMALIZING or INVOKING
\* (never from NORMALIZING_RESPONSE) and from there straight to RESPONDING
\* with an error payload, without a later backend call or normalization.
C7_PhaseOrder ==
    \A r \in Requests :
        /\ \/ IsPrefix(phases[r], HappyPath)
           \/ phases[r] = <<"RECEIVED", "NORMALIZING", "FAILED", "RESPONDING">>
           \/ phases[r] = <<"RECEIVED", "NORMALIZING", "INVOKING", "FAILED", "RESPONDING">>
        /\ (Answered(r) /\ \E i \in 1..Len(phases[r]) : phases[r][i] = "FAILED")
              => IsFailure(Response(r))

\* C8 (safety): a request gets at most one response, an answered request has
\* exactly one, and every failure response has a status among 400, 502, 500
\* and the body {"detail": <message>}.
C8_OneClassifiedResponse ==
    \A r \in Requests :
        /\ Len(responses[r]) <= 1
        /\ pc[r] = "responded" <=> Len(responses[r]) = 1
        /\ pc[r] # "ended_without_response"
        /\ (Answered(r) /\ Response(r).status_code # 200)
              => /\ Response(r).status_code \in {400, 502, 500}
                 /\ Response(r).content.type = "dict"
                 /\ IsFailure(Response(r))
                 /\ Len(Response(r).content.items.detail) >= 2

\* C8: every request received by proxy_to_litellm is eventually answered, with
\* exactly one response, classified as C8_OneClassifiedResponse says.
C8_EveryRequestAnswered ==
    /\ []C8_OneClassifiedResponse
    /\ \A r \in Requests :
          (pc[r] = "reading_body") ~> (pc[r] = "responded" /\ Len(responses[r]) = 1)

\* C9: the client is open from the moment the handler starts until it
\* exits, in particular while the backend call is awaited, and it is closed
\* on every exit path: no answered request holds an open client.
C9_ClientScoped ==
    \A r \in Requests :
        /\ pc[r] \in {"reading_body", "awaiting_backend"} => clientOpen[r]
        /\ pc[r] \in {"idle", "responded", "ended_without_response"} => ~clientOpen[r]
        /\ (calls[r] # <<>> /\ backend[r] = <<>>) => clientOpen[r]

\* Requests that ended on different exit paths, a validation failure and a
\* cancellation of the backend call, have both released the client they had
\* opened.
C9_Witness ==
    \E r, q \in Requests :
        /\ Answered(r) /\ requestBody[r] # <<>> /\ backend[r] = <<>> /\ ~clientOpen[r]
        /\ pc[q] = "ended_without_response" /\ backend[q] # <<>>
        /\ Outcome(q).raised # <<>> /\ ~clientOpen[q]

\* The single backend attempt of request r failed: it raised or returned None.
AttemptFailed(r) ==
    /\ backend[r] # <<>>
    /\ \/ Outcome(r).raised # <<>>
       \/ Outcome(r).value.type = "NoneType"

\* C10: a request causes at most one backend invocation, and a request whose
\* attempt fails is answered as a failure without a second attempt.
C10_NoRetries ==
    \A r \in Requests :
        /\ Len(calls[r]) <= 1
        /\ Len(backend[r]) <= Len(calls[r])
        /\ AttemptFailed(r)
              => /\ Len(calls[r]) = 1
                 /\ Len(backend[r]) = 1
                 /\ pc[r] \in {"responded", "ended_without_response"}
        /\ (Answered(r) /\ AttemptFailed(r))
              => /\ Response(r).status_code \in {500, 502}
                 /\ IsFailure(Response(r))

C10_Witness ==
    \E r \in Requests :
        /\ Answered(r)
        /\ AttemptFailed(r)
        /\ Outcome(r).raised # <<>>
        /\ Len(calls[r]) = 1

\* The credential the claim C11 expects for an Authorization header.
ExpectedCredential(auth) ==
    IF auth = Absent THEN ""
    ELSE IF StartsWith(auth, "Bearer ") THEN SubSeq(auth, 8, Len(auth))
    ELSE auth

\* C11: the api_key passed to the backend is the Authorization value without
\* its leading "Bearer " when it starts with it, the value unchanged when it
\* does not, and the empty string when the header is absent.
C11_CredentialExtraction ==
    \A r \in Requests :
        \A i \in 1..Len(calls[r]) :
            calls[r][i].api_key = ExpectedCredential(request[r][1].headers.authorization)

\* C12: the backend is called with the body's own model, messages,
\* temperature and max_tokens where the body gives them, with the defaults
\* "claude-3-5-haiku-20241022", 0.7 and 20 where it omits them, and always
\* with the configured base URL.
C12_CallArguments ==
    \A r \in Requests :
        \A i \in 1..Len(calls[r]) :
            LET call == calls[r][i]
                body == request[r][1].body
            IN  /\ call.base_url = "http://localhost:4000"
                /\ call.messages = "[{\"role\": \"user\", \"content\": \"hi\"}]"
                /\ body = Utf8(MsgBody) =>
                      /\ call.model = "\"claude-3-5-haiku-20241022\""
                      /\ call.temperature = "0.7"
                      /\ call.max_tokens = "20"
                /\ body = Utf8(FullBody) =>
                      /\ call.model = "\"gpt-4o\""
                      /\ call.temperature = "0"
                      /\ call.max_tokens = "100"
                /\ body \in {Utf8(MsgBody), Utf8(FullBody)}

\* One call was made with the body's own fields and one with the defaults.
C12_Witness ==
    \E r, q \in Requests :
        /\ Len(calls[r]) = 1 /\ request[r][1].body = Utf8(FullBody)
        /\ calls[r][1].temperature = "0"
        /\ Len(calls[q]) = 1 /\ request[q][1].body = Utf8(MsgBody)
        /\ calls[q][1].max_tokens = "20"

\* Non-empty bodies that cannot be decoded and parsed as JSON: bytes that are
\* not UTF-8, and text that is not JSON.
UnparseableBodies == { BadUtf8, Utf8("{\"messages\"") }

\* C13: a non-empty body that cannot be decoded and parsed as JSON gets the
\* response an empty body gets, with the same status and message, and makes
\* no backend call.
C13_LenientParse ==
    \A r, q \in Requests :
        (/\ Answered(r) /\ Arrived(r) /\ request[r][1].body \in UnparseableBodies
         /\ Answered(q) /\ Arrived(q) /\ request[q][1].body = Utf8(""))
            => /\ Response(r) = Response(q)
               /\ calls[r] = <<>>

IsHealthCheck(r) ==
    /\ request[r] # <<>>
    /\ request[r][1].method = "GET"
    /\ request[r][1].path = "health"

\* C14: GET /health is answered with status 200 and {"status": "healthy"}
\* whatever the other requests and the backend are doing, without entering
\* the pipeline, calling the backend or opening a client.
C14_HealthUnconditional ==
    \A r \in Requests :
        IsHealthCheck(r)
            => /\ pc[r] = "responded"
               /\ Len(responses[r]) = 1
               /\ Response(r).status_code = 200
               /\ Response(r).content.items = [status |-> "\"healthy\""]
               /\ phases[r] = <<>>
               /\ calls[r] = <<>>
               /\ backend[r] = <<>>
               /\ ~clientOpen[r]

\* GET /health was answered while another request was waiting for the backend.
C14_Witness ==
    \E r, q \in Requests :
        /\ IsHealthCheck(r)
        /\ pc[r] = "responded"
        /\ pc[q] = "awaiting_backend"
        /\ responses[q] = <<>>

\* The responses a request gets when it is handled alone in the environment
\* env, given what reading its body and its backend call did (read and
\* outcomes are empty while the awaited call has not completed).
AloneResponses(req, env, read, outcomes) ==
    IF Dispatch(req) = "cors_preflight" THEN <<PreflightResponse(req)>>
    ELSE IF Dispatch(req) = "method_not_allowed"
    THEN <<Cors(req, MethodNotAllowedResponse(req))>>
    ELSE IF Dispatch(req) \in DocsEndpoints THEN <<Cors(req, DocsResponse(Dispatch(req)))>>
    ELSE IF Dispatch(req) = "health_check" THEN <<Cors(req, HealthResponse)>>
    ELSE LET made == NewAsyncClient(env) IN
         IF made.raised # <<>> THEN Unhandled(req, made.raised[1])
         ELSE IF read = <<>> THEN <<>>
         ELSE LET handled == HandleBody(req, read[1]) IN
              IF handled.raised # <<>>
              THEN Unhandled(req, ExceptClauses(handled.raised[1]))
              ELSE IF outcomes = <<>> THEN <<>>
              ELSE LET result == HandleResult(outcomes[1]) IN
                   IF result.raised # <<>>
                   THEN Unhandled(req, ExceptClauses(result.raised[1]))
                   ELSE <<Cors(req, result.response[1])>>

\* The backend calls a request makes when it is handled alone.
AloneCalls(req, env, read) ==
    IF Dispatch(req) # "proxy_to_litellm" \/ NewAsyncClient(env).raised # <<>> \/ read = <<>>
    THEN <<>>
    ELSE HandleBody(req, read[1]).call

\* The handler of r has ended.
Done(r) == pc[r] \in {"responded", "ended_without_response"}

\* C15: under every interleaving, the body a handler reads is its own
\* request's, and the response and the backend call of a request are those
\* it gets when handled alone: they depend on its own request and its own
\* backend result only, so two requests with the same input and the same
\* backend result have the same response.
C15_RequestsIndependent ==
    /\ \A r \in Requests :
          (requestBody[r] # <<>> /\ requestBody[r][1].raised = <<>>)
              => requestBody[r][1].value = request[r][1].body
    /\ \A r \in Requests :
          Done(r) =>
              /\ responses[r] =
                    AloneResponses(request[r][1], environ, requestBody[r], backend[r])
              /\ calls[r] = AloneCalls(request[r][1], environ, requestBody[r])
    /\ \A r \in Requests :
          pc[r] = "awaiting_backend" =>
              /\ responses[r] = <<>>
              /\ calls[r] = AloneCalls(request[r][1], environ, requestBody[r])
    /\ \A r, q \in Requests :
          (/\ Done(r) /\ Done(q)
           /\ request[r] = request[q] /\ requestBody[r] = requestBody[q]
           /\ backend[r] = backend[q])
              => responses[r] = responses[q]

\* Two different requests, each with its own backend result, were answered
\* with different responses.
C15_Witness ==
    \E r, q \in Requests :
        /\ Answered(r) /\ Answered(q)
        /\ request[r] # request[q]
        /\ backend[r] # <<>> /\ backend[q] # <<>>
        /\ backend[r] # backend[q]
        /\ Response(r).status_code = 200
        /\ Response(q).status_code = 502

Proxied(r) ==
    /\ request[r] # <<>>
    /\ request[r][1].method \in Methods
    /\ ~(request[r][1].method = "GET" /\ request[r][1].path = "health")

SameHeadersAndBody(r, q) ==
    /\ request[r][1].headers = request[q][1].headers
    /\ request[r][1].body = request[q][1].body

\* The body of r has not failed to arrive.
BodyArrives(r) == requestBody[r] = <<>> \/ requestBody[r][1].raised = <<>>

\* C16: two requests with the same headers and body, whatever their methods
\* and paths (GET /health apart), make the same backend call with the same
\* arguments and, given the same backend result, get the same response.
C16_MethodAndPathIgnored ==
    \A r, q \in Requests :
        (/\ Proxied(r) /\ Proxied(q) /\ SameHeadersAndBody(r, q)
         /\ BodyArrives(r) /\ BodyArrives(q))
            => /\ (pc[r] # "reading_body" /\ pc[q] # "reading_body")
                     => calls[r] = calls[q]
               /\ (Done(r) /\ Done(q) /\ backend[r] = backend[q])
                     => /\ responses[r] = responses[q]
                        /\ phases[r] = phases[q]

\* The body of the response of r is the mapping d.
BodyIs(r, d) == Response(r).status_code = 200 /\ Response(r).content = d

EmptyResponseError ==
    PyDict(<<"error">>, [error |-> "\"Empty response from LiteLLM\""])

\* C17 (model_dump first): a mapping returned by model_dump is the body, also
\* when the value has a __dict__.
C17_ModelDumpFirst ==
    \A r \in Requests :
        (/\ Answered(r) /\ NonNullResult(r)
         /\ Outcome(r).value.model_dump.has
         /\ Outcome(r).value.model_dump.raised = <<>>
         /\ Outcome(r).value.model_dump.value.type = "dict")
            => BodyIs(r, Outcome(r).value.model_dump.value)

\* C17 (null mapping): a null mapping from model_dump, or from __dict__ when
\* there is no model_dump, gives status 200 and the body {"error": "Empty
\* response from LiteLLM"}.
C17_NullMapping ==
    \A r \in Requests :
        (/\ Answered(r) /\ NonNullResult(r)
         /\ \/ /\ Outcome(r).value.model_dump.has
               /\ Outcome(r).value.model_dump.raised = <<>>
               /\ Outcome(r).value.model_dump.value.type = "NoneType"
            \/ /\ ~Outcome(r).value.model_dump.has
               /\ Outcome(r).value.dict.has
               /\ Outcome(r).value.dict.value.type = "NoneType")
            => BodyIs(r, EmptyResponseError)

\* C17 (__dict__ last): the body is the value's __dict__ only when the value
\* has no model_dump.
C17_DictOnlyWithoutModelDump ==
    \A r \in Requests :
        (/\ Answered(r) /\ NonNullResult(r)
         /\ Outcome(r).value.dict.has
         /\ BodyIs(r, Outcome(r).value.dict.value))
            => ~Outcome(r).value.model_dump.has

\* C17: response normalization uses model_dump when the value has it, also
\* when it has a __dict__; uses __dict__ only when there is no model_dump; and
\* answers 200 with {"error": "Empty response from LiteLLM"} when the mapping
\* got either way is null.
C17_NormalizationPrecedence ==
    /\ C17_ModelDumpFirst
    /\ C17_DictOnlyWithoutModelDump
    /\ C17_NullMapping

\* C18: a request that proxy_to_litellm answers with status 200 passed
\* validation, made exactly one backend call, and that call returned a value
\* that is not None without raising; no failure path ends in a 200.
C18_SuccessNeedsBackendResult ==
    \A r \in Requests :
        (Answered(r) /\ Response(r).status_code = 200)
            => /\ request[r][1].body \in WellFormedBodies
               /\ Len(calls[r]) = 1
               /\ calls[r][1].messages = HiMessages
               /\ Len(backend[r]) = 1
               /\ Outcome(r).raised = <<>>
               /\ Outcome(r).value.type # "NoneType"
               /\ \A i \in 1..Len(phases[r]) : phases[r][i] # "FAILED"

\* One request was answered 200 after its backend call returned, another was
\* refused before any call and did not get a 200.
C18_Witness ==
    \E r, q \in Requests :
        /\ Answered(r) /\ Response(r).status_code = 200
        /\ Len(backend[r]) = 1 /\ Outcome(r).value.type = "ModelResponse"
        /\ Answered(q) /\ calls[q] = <<>> /\ Response(q).status_code # 200

====
